---- MODULE Spec2Model ----
(***************************************************************************)
(* EdgeBoost tree predictor (src/EdgeBoost/predictor.py).                  *)
(*                                                                         *)
(* A TreePredictor holds a flat node array.  predict_binned / predict      *)
(* validate their input, allocate the output array and hand every sample   *)
(* to its own multiprocessing.Process; the parent creates all processes,   *)
(* starts them, joins them and returns the output array.  Each process     *)
(* walks the node array from node 0 to a leaf and assigns out[idx].        *)
(*                                                                         *)
(* Numbers.  Node indices and sample indices are 0-based as in the source. *)
(* Floating point values are modelled on an integer grid: the 'value'      *)
(* field is '<n>f8' (float64) and an odd integer stands for a float64 that *)
(* float32 cannot represent, an even integer for one that it can.          *)
(***************************************************************************)
EXTENDS Integers, Sequences, FiniteSets, TLC

\* ---------------------------------------------------------------- bounds
MaxNodes == 3
MaxSamples == 2
NFeatures == 2
MaxBin == 1
MaxDim == 2
MaxLeafNodes == 3
MaxGain == 2
MaxPredictors == 3

\* Width of the 'value' field of PREDICTOR_RECORD_DTYPE when the module is imported.
ImportedValueWidth == 50

VARIABLES
    nodes,                      \* self.nodes: [0..L-1 -> node record]
    has_numerical_thresholds,   \* self.has_numerical_thresholds
    prediction_dim,             \* self.prediction_dim
    PREDICTOR_RECORD_DTYPE,     \* module global: width of the 'value' field
    pc,                         \* where the calling (parent) process is
    method,                     \* which entry point was called
    X,                          \* the input matrix argument
    arg_out,                    \* the `out` argument as the caller passed it
    out,                        \* the parent's `out` array
    processes,                  \* the parent's list of Process objects
    i,                          \* loop index of the parent's current loop
    node,                       \* per worker: index of its current node
    child_out,                  \* per worker: its own copy of `out`
    writes,                     \* per worker: the assignments it performed
    visited,                    \* per worker: the node indices it read
    exc,                        \* exception raised to the caller
    splittable,                 \* Tree Grower: the priority structure
    max_leaf_nodes,             \* Tree Grower: the configured leaf budget
    predictors                  \* every TreePredictor constructed so far

vars == <<nodes, has_numerical_thresholds, prediction_dim,
          PREDICTOR_RECORD_DTYPE, pc, method, X, arg_out, out, processes, i,
          node, child_out, writes, visited, exc, splittable,
          max_leaf_nodes, predictors>>

self == <<nodes, has_numerical_thresholds, prediction_dim, PREDICTOR_RECORD_DTYPE>>
call == <<pc, method, X, arg_out, out, processes, i, node, child_out, writes,
          visited, exc>>
grower == <<splittable, max_leaf_nodes>>

\* ------------------------------------------------------------ node arrays
Features == 0 .. NFeatures - 1
BinCodes == 0 .. MaxBin
BinThresholds == 0 .. MaxBin - 1

\* Bin Mapping Table: ascending bin edges of one feature, edge j at 2*(j+1).
BinEdge(j) == 2 * (j + 1)

\* Raw numeric values: odd ones lie strictly inside a bin, even ones on an edge.
RawValues == 1 .. 2 * MaxBin + 1

\* The 'value' vector of the leaf stored at index k.
LeafValue(k, dim) == [d \in 1 .. dim |-> k + d]
ZeroValue(dim) == [d \in 1 .. dim |-> 0]

LeafNode(k, dim) ==
    [is_leaf |-> 1, value |-> LeafValue(k, dim), feature_idx |-> 0,
     bin_threshold |-> 0, threshold |-> 0, left |-> 0, right |-> 0]

SplitNode(dim, f, b, t, l, r) ==
    [is_leaf |-> 0, value |-> ZeroValue(dim), feature_idx |-> f,
     bin_threshold |-> b, threshold |-> t, left |-> l, right |-> r]

\* The records index k of an array of length len may hold: a leaf, or a split
\* whose children lie after k (nodes are appended as they are created).
NodesAt(k, len, dim, numeric) ==
    {LeafNode(k, dim)} \cup
    {SplitNode(dim, f, b, IF numeric THEN BinEdge(b) ELSE 0, l, r) :
        f \in Features, b \in BinThresholds,
        l \in k + 1 .. len - 1, r \in k + 1 .. len - 1}

\* The records of indices k .. len - 1, as a sequence.
RECURSIVE NodesFrom(_, _, _, _)
NodesFrom(k, len, dim, numeric) ==
    IF k = len THEN {<<>>}
    ELSE {<<nd>> \o rest : nd \in NodesAt(k, len, dim, numeric),
                           rest \in NodesFrom(k + 1, len, dim, numeric)}

\* Every array of 1 .. MaxNodes records, indexed from 0.
NodeArrays(dim, numeric) ==
    UNION {{[k \in 0 .. len - 1 |-> q[k + 1]] : q \in NodesFrom(0, len, dim, numeric)} :
           len \in 1 .. MaxNodes}

NNodes(a) == Cardinality(DOMAIN a)

\* ------------------------------------------------------------- matrices
Rows(vals) == [Features -> vals]

Matrices(dtype, vals) ==
    UNION {{[dtype |-> dtype, rows |-> m] : m \in [0 .. n - 1 -> Rows(vals)]} :
           n \in 0 .. MaxSamples}

Inputs == Matrices("uint8", BinCodes) \cup Matrices("float32", RawValues)

NSamples(m) == Cardinality(DOMAIN m.rows)

\* np.float32(v) for a float64 v: the nearest representable value.
F32(v) == IF v % 2 = 0 THEN v ELSE v + 1

\* Assigning a float64 vector to a row of an array of element type dtype.
Cast(vec, dtype) ==
    IF dtype = "float32" THEN [d \in DOMAIN vec |-> F32(vec[d])] ELSE vec

None == [dtype |-> "None", shared |-> FALSE, rows |-> <<>>]

\* np.empty((n, dim), dtype=np.float32): private memory, arbitrary contents.
GarbageValues == {0, 2}
Empty(n, dim, g) ==
    [dtype |-> "float32", shared |-> FALSE,
     rows |-> [s \in 0 .. n - 1 |-> [d \in 1 .. dim |-> g]]]

\* Arrays a caller may pass as `out`: n rows of prediction_dim zeros, float32 or
\* float64, in private memory or in memory shared with forked children.
CallerArrays(n, dim) ==
    {[dtype |-> t, shared |-> sh, rows |-> [s \in 0 .. n - 1 |-> ZeroValue(dim)]] :
        t \in {"float32", "float64"}, sh \in BOOLEAN}

\* ------------------------------------------------------------ predictor
\* Mutant: every node record is counted, split nodes included.
get_n_leaf_nodes_counts_all(a) == Cardinality(DOMAIN a)

\* TreePredictor.get_n_leaf_nodes
get_n_leaf_nodes(a) == Cardinality({k \in DOMAIN a : a[k].is_leaf = 1})

\* Mutant: the dtype check is dropped (the input is taken as it comes).
PredictBinnedNeverRaises(binned_data) == FALSE

\* predict_binned line 72: the dtype check
PredictBinnedRaises(binned_data) == binned_data.dtype # "uint8"

\* Mutant: only the first check of predict is made.
PredictRaisesNoDtypeCheck(has_num, data) == ~has_num

\* predict lines 96-107: the two checks
PredictRaises(has_num, data) == ~has_num \/ data.dtype = "uint8"

\* Mutant: the binned comparison is strict.
BinnedGoesLeftStrict(nd, row) == row[nd.feature_idx] < nd.bin_threshold

\* _predict_one_binned line 120
BinnedGoesLeft(nd, row) == row[nd.feature_idx] <= nd.bin_threshold

\* Mutant: the numeric comparison is strict.
NumericGoesLeftStrict(nd, row) == row[nd.feature_idx] < nd.threshold

\* _predict_one_from_numeric_data line 143
NumericGoesLeft(nd, row) == row[nd.feature_idx] <= nd.threshold

\* Mutant: each loop stops one iteration early.
LoopPcSkipsLast(phase, k, n) ==
    IF k < n - 1 THEN phase
    ELSE IF n = 0 THEN "returned"
    ELSE IF phase = "create" THEN "start"
    ELSE IF phase = "start" THEN "join"
    ELSE "returned"

\* Position of the parent after k iterations of the loop `phase` over n processes.
LoopPc(phase, k, n) ==
    IF k < n THEN phase
    ELSE IF n = 0 THEN "returned"
    ELSE IF phase = "create" THEN "start"
    ELSE IF phase = "start" THEN "join"
    ELSE "returned"

NoWorkers == [s \in {} |-> 0]

Init ==
    /\ prediction_dim = MaxDim
    /\ has_numerical_thresholds \in BOOLEAN
    /\ nodes \in NodeArrays(prediction_dim, has_numerical_thresholds)
    /\ PREDICTOR_RECORD_DTYPE = prediction_dim
    /\ pc = "idle"
    /\ method = "none"
    /\ X = None
    /\ arg_out = None
    /\ out = None
    /\ processes = <<>>
    /\ i = 0
    /\ node = NoWorkers
    /\ child_out = NoWorkers
    /\ writes = NoWorkers
    /\ visited = NoWorkers
    /\ exc = "none"
    /\ splittable = {}
    /\ max_leaf_nodes = 0
    /\ predictors = <<>>

\* What a call leaves alone until workers exist.
EnterCall(n) ==
    /\ processes' = <<>>
    /\ i' = 0
    /\ node' = [s \in 0 .. n - 1 |-> -1]
    /\ child_out' = [s \in 0 .. n - 1 |-> None]
    /\ writes' = [s \in 0 .. n - 1 |-> <<>>]
    /\ visited' = [s \in 0 .. n - 1 |-> <<>>]

Raise ==
    /\ pc' = "raised"
    /\ exc' = "ValueError"
    /\ UNCHANGED <<processes, i, node, child_out, writes, visited>>

\* TreePredictor.predict_binned(binned_data, out)
predict_binned(binned_data, o, g) ==
    /\ pc = "idle"
    /\ method' = "predict_binned"
    /\ X' = binned_data
    /\ arg_out' = o
    /\ IF PredictBinnedRaises(binned_data)
       THEN /\ Raise
            /\ out' = o
       ELSE /\ out' = IF o = None
                      THEN Empty(NSamples(binned_data), prediction_dim, g)
                      ELSE o
            /\ EnterCall(NSamples(binned_data))
            /\ pc' = LoopPc("create", 0, NSamples(binned_data))
            /\ exc' = "none"
    /\ UNCHANGED <<self, grower, predictors>>

\* TreePredictor.predict(X)
predict(data, g) ==
    /\ pc = "idle"
    /\ method' = "predict"
    /\ X' = data
    /\ arg_out' = None
    /\ IF PredictRaises(has_numerical_thresholds, data)
       THEN /\ Raise
            /\ out' = None
       ELSE /\ out' = Empty(NSamples(data), prediction_dim, g)
            /\ EnterCall(NSamples(data))
            /\ pc' = LoopPc("create", 0, NSamples(data))
            /\ exc' = "none"
    /\ UNCHANGED <<self, grower, predictors>>

\* first loop of _predict_binned / _predict_from_numeric_data
CreateProcess ==
    /\ pc = "create"
    /\ i < NSamples(X)
    /\ processes' = Append(processes, [idx |-> i, row |-> X.rows[i], state |-> "initial"])
    /\ pc' = LoopPc("create", i + 1, NSamples(X))
    /\ i' = IF pc' = "create" THEN i + 1 ELSE 0
    /\ UNCHANGED <<self, grower, predictors, method, X, arg_out, out, node,
                   child_out, writes, visited, exc>>

\* second loop: p.start().  The child gets the parent's memory as it is now:
\* a private `out` is copied, a shared one is the same memory.  The child
\* begins with `node = nodes[0]`.
StartProcess ==
    /\ pc = "start"
    /\ i < Len(processes)
    /\ processes[i + 1].state = "initial"
    /\ processes' = [processes EXCEPT ![i + 1].state = "started"]
    /\ child_out' = [child_out EXCEPT ![processes[i + 1].idx] = out]
    /\ node' = [node EXCEPT ![processes[i + 1].idx] = 0]
    /\ visited' = [visited EXCEPT ![processes[i + 1].idx] = <<0>>]
    /\ pc' = LoopPc("start", i + 1, Len(processes))
    /\ i' = IF pc' = "start" THEN i + 1 ELSE 0
    /\ UNCHANGED <<self, grower, predictors, method, X, arg_out, out, writes, exc>>

\* Mutant: every worker assigns row 0.
WriteRowZero(p, w, idx, value) ==
    /\ IF child_out[w].shared
       THEN /\ out' = [out EXCEPT !.rows[0] = Cast(value, out.dtype)]
            /\ UNCHANGED child_out
       ELSE /\ child_out' = [child_out EXCEPT ![w].rows[0] =
                                Cast(value, child_out[w].dtype)]
            /\ UNCHANGED out
    /\ writes' = [writes EXCEPT ![w] =
                    Append(@, [row |-> 0, shared |-> child_out[w].shared,
                               value |-> Cast(value, child_out[w].dtype)])]
    /\ processes' = [processes EXCEPT ![p].state = "stopped"]
    /\ UNCHANGED <<node, visited>>

\* `out[idx] = node['value']` in the worker of process p.
WriteRow(p, w, idx, value) ==
    /\ IF child_out[w].shared
       THEN /\ out' = [out EXCEPT !.rows[idx] = Cast(value, out.dtype)]
            /\ UNCHANGED child_out
       ELSE /\ child_out' = [child_out EXCEPT ![w].rows[idx] =
                                Cast(value, child_out[w].dtype)]
            /\ UNCHANGED out
    /\ writes' = [writes EXCEPT ![w] =
                    Append(@, [row |-> idx, shared |-> child_out[w].shared,
                               value |-> Cast(value, child_out[w].dtype)])]
    /\ processes' = [processes EXCEPT ![p].state = "stopped"]
    /\ UNCHANGED <<node, visited>>

\* Mutant: the worker reads its current node again instead of the child.
MoveStay(w, k) ==
    /\ node' = [node EXCEPT ![w] = node[w]]
    /\ visited' = [visited EXCEPT ![w] = Append(@, node[w])]
    /\ UNCHANGED <<out, child_out, writes, processes>>

\* `node = nodes[node['left']]` / `node = nodes[node['right']]`
MoveTo(w, k) ==
    /\ node' = [node EXCEPT ![w] = k]
    /\ visited' = [visited EXCEPT ![w] = Append(@, k)]
    /\ UNCHANGED <<out, child_out, writes, processes>>

\* one iteration of the `while True` loop of _predict_one_binned
predict_one_binned(p) ==
    LET w == processes[p].idx
        nd == nodes[node[w]]
    IN IF nd.is_leaf = 1
       THEN WriteRow(p, w, processes[p].idx, nd.value)
       ELSE IF BinnedGoesLeft(nd, processes[p].row)
            THEN MoveTo(w, nd.left)
            ELSE MoveTo(w, nd.right)

\* a started process of _predict_binned runs _predict_one_binned
BinnedWorker(p) ==
    /\ method = "predict_binned"
    /\ processes[p].state = "started"
    /\ predict_one_binned(p)
    /\ UNCHANGED <<self, grower, predictors, pc, method, X, arg_out, i, exc>>

\* one iteration of the `while True` loop of _predict_one_from_numeric_data
predict_one_from_numeric_data(p) ==
    LET w == processes[p].idx
        nd == nodes[node[w]]
    IN IF nd.is_leaf = 1
       THEN WriteRow(p, w, processes[p].idx, nd.value)
       ELSE IF NumericGoesLeft(nd, processes[p].row)
            THEN MoveTo(w, nd.left)
            ELSE MoveTo(w, nd.right)

\* a started process of _predict_from_numeric_data runs _predict_one_from_numeric_data
NumericWorker(p) ==
    /\ method = "predict"
    /\ processes[p].state = "started"
    /\ predict_one_from_numeric_data(p)
    /\ UNCHANGED <<self, grower, predictors, pc, method, X, arg_out, i, exc>>

\* third loop: p.join() returns once the process has exited; after the last
\* join the function returns and the caller gets `out`.
JoinProcess ==
    /\ pc = "join"
    /\ i < Len(processes)
    /\ processes[i + 1].state = "stopped"
    /\ processes' = [processes EXCEPT ![i + 1].state = "joined"]
    /\ pc' = LoopPc("join", i + 1, Len(processes))
    /\ i' = IF pc' = "join" THEN i + 1 ELSE 0
    /\ UNCHANGED <<self, grower, predictors, method, X, arg_out, out, node,
                   child_out, writes, visited, exc>>

Next ==
    \/ /\ pc = "idle"
       /\ \E m \in Inputs :
            \/ \E g \in GarbageValues : predict_binned(m, None, g)
            \/ \E o \in CallerArrays(NSamples(m), prediction_dim) :
                  predict_binned(m, o, 0)
    \/ /\ pc = "idle"
       /\ \E m \in Inputs, g \in GarbageValues : predict(m, g)
    \/ CreateProcess
    \/ StartProcess
    \/ \E p \in 1 .. Len(processes) : BinnedWorker(p)
    \/ \E p \in 1 .. Len(processes) : NumericWorker(p)
    \/ JoinProcess

Spec == Init /\ [][Next]_vars


\* Fairness: the operating system schedules the parent and every started
\* process, so a step that stays possible is eventually taken.
Step ==
    \/ CreateProcess
    \/ StartProcess
    \/ \E p \in 1 .. Len(processes) : BinnedWorker(p)
    \/ \E p \in 1 .. Len(processes) : NumericWorker(p)
    \/ JoinProcess

FairSpec == Spec /\ WF_vars(Step)

\* ------------------------------------------- binned and numeric walks
\* Bin Mapper transform: the index of the first edge the raw value does not
\* exceed; values beyond all edges go to the last bin.
RECURSIVE FirstEdge(_, _)
FirstEdge(x, j) ==
    IF j >= MaxBin THEN MaxBin
    ELSE IF x <= BinEdge(j) THEN j
    ELSE FirstEdge(x, j + 1)

transform(row) == [f \in DOMAIN row |-> FirstEdge(row[f], 0)]

\* Raw values that fall strictly inside a bin.
InsideValues == {x \in RawValues : \A j \in BinThresholds : x # BinEdge(j)}

\* One raw sample and its bin codes are walked one after the other: process 1
\* runs _predict_one_from_numeric_data on the raw row (sample index 0), then
\* process 2 runs _predict_one_binned on the bin codes (sample index 1), each
\* on its own zero-filled float32 output array.
AgreeInit ==
    /\ prediction_dim = MaxDim
    /\ has_numerical_thresholds = TRUE
    /\ nodes \in NodeArrays(prediction_dim, TRUE)
    /\ PREDICTOR_RECORD_DTYPE = prediction_dim
    /\ pc = "agree"
    /\ method = "agree"
    /\ \E raw \in Rows(InsideValues) :
          /\ X = [dtype |-> "float32", rows |-> (0 :> raw @@ 1 :> raw)]
          /\ processes = <<[idx |-> 0, row |-> raw, state |-> "started"],
                           [idx |-> 1, row |-> transform(raw), state |-> "started"]>>
    /\ arg_out = None
    /\ out = None
    /\ i = 0
    /\ node = (0 :> 0 @@ 1 :> 0)
    /\ child_out = [w \in {0, 1} |->
                       [dtype |-> "float32", shared |-> FALSE,
                        rows |-> [s \in {0, 1} |-> ZeroValue(prediction_dim)]]]
    /\ writes = (0 :> <<>> @@ 1 :> <<>>)
    /\ visited = (0 :> <<0>> @@ 1 :> <<0>>)
    /\ exc = "none"
    /\ splittable = {}
    /\ max_leaf_nodes = 0
    /\ predictors = <<>>

AgreeNumeric ==
    /\ method = "agree"
    /\ processes[1].state = "started"
    /\ predict_one_from_numeric_data(1)
    /\ UNCHANGED <<self, grower, predictors, pc, method, X, arg_out, i, exc>>

AgreeBinned ==
    /\ method = "agree"
    /\ processes[1].state = "stopped"
    /\ processes[2].state = "started"
    /\ predict_one_binned(2)
    /\ UNCHANGED <<self, grower, predictors, pc, method, X, arg_out, i, exc>>

AgreeNext == AgreeNumeric \/ AgreeBinned

SpecAgree == AgreeInit /\ [][AgreeNext]_vars

\* ------------------------------------------------------------ Tree Grower
Gains == 1 .. MaxGain

\* A node that has been created and found splittable but is not split yet.
PendingNode(dim) ==
    [is_leaf |-> 0, value |-> ZeroValue(dim), feature_idx |-> 0,
     bin_threshold |-> 0, threshold |-> 0, left |-> 0, right |-> 0]

\* Evaluating a new node k gives the gain of its best split, 0 when it has no
\* valid split (every candidate violates a constraint or has non-positive gain).
Evaluated(k, dim, e) == IF e = 0 THEN LeafNode(k, dim) ELSE PendingNode(dim)
Pushed(k, e) == IF e = 0 THEN {} ELSE {[idx |-> k, gain |-> e]}
Evaluations == {0} \cup Gains

\* Nodes of the array that are not split: finalized leaves and splittable nodes.
Frontier(a, sp) ==
    {k \in DOMAIN a : a[k].is_leaf = 1} \cup {n.idx : n \in sp}

GrowInit ==
    /\ prediction_dim = MaxDim
    /\ has_numerical_thresholds \in BOOLEAN
    /\ PREDICTOR_RECORD_DTYPE = prediction_dim
    /\ max_leaf_nodes \in 1 .. MaxLeafNodes
    /\ \E e \in Evaluations :
          /\ nodes = (0 :> Evaluated(0, prediction_dim, e))
          /\ splittable = Pushed(0, e)
    /\ pc = "growing"
    /\ method = "grow"
    /\ X = None
    /\ arg_out = None
    /\ out = None
    /\ processes = <<>>
    /\ i = 0
    /\ node = NoWorkers
    /\ child_out = NoWorkers
    /\ writes = NoWorkers
    /\ visited = NoWorkers
    /\ exc = "none"
    /\ predictors = <<>>

\* Pop the highest-gain splittable node, split it, append its two children and
\* evaluate them at once.
SplitNext ==
    /\ pc = "growing"
    /\ splittable # {}
    /\ Cardinality(Frontier(nodes, splittable)) < max_leaf_nodes
    /\ \E n \in splittable, f \in Features, b \in BinThresholds,
          el \in Evaluations, er \in Evaluations :
          /\ \A m \in splittable : m.gain <= n.gain
          /\ LET len == NNodes(nodes)
             IN /\ nodes' = [k \in 0 .. len + 1 |->
                               IF k = n.idx
                               THEN SplitNode(prediction_dim, f, b,
                                              IF has_numerical_thresholds
                                              THEN BinEdge(b) ELSE 0,
                                              len, len + 1)
                               ELSE IF k < len THEN nodes[k]
                               ELSE IF k = len THEN Evaluated(k, prediction_dim, el)
                               ELSE Evaluated(k, prediction_dim, er)]
                /\ splittable' = (splittable \ {n}) \cup Pushed(len, el)
                                    \cup Pushed(len + 1, er)
    /\ UNCHANGED <<has_numerical_thresholds, prediction_dim,
                   PREDICTOR_RECORD_DTYPE, max_leaf_nodes, call, predictors>>

\* Growth ends when the priority structure is empty or the leaf budget is
\* reached; every node not split becomes a leaf.
FinishGrowth ==
    /\ pc = "growing"
    /\ \/ splittable = {}
       \/ Cardinality(Frontier(nodes, splittable)) >= max_leaf_nodes
    /\ nodes' = [k \in DOMAIN nodes |->
                    IF k \in {n.idx : n \in splittable}
                    THEN LeafNode(k, prediction_dim) ELSE nodes[k]]
    /\ splittable' = {}
    /\ pc' = "finished"
    /\ UNCHANGED <<has_numerical_thresholds, prediction_dim,
                   PREDICTOR_RECORD_DTYPE, max_leaf_nodes, method, X, arg_out,
                   out, processes, i, node, child_out, writes, visited, exc,
                   predictors>>

GrowNext == SplitNext \/ FinishGrowth

SpecGrow == GrowInit /\ [][GrowNext]_vars

\* ------------------------------------------------------------ constructors
CtorInit ==
    /\ predictors = <<>>
    /\ PREDICTOR_RECORD_DTYPE = ImportedValueWidth
    /\ nodes = NoWorkers
    /\ has_numerical_thresholds = TRUE
    /\ prediction_dim = 0
    /\ pc = "idle"
    /\ method = "none"
    /\ X = None
    /\ arg_out = None
    /\ out = None
    /\ processes = <<>>
    /\ i = 0
    /\ node = NoWorkers
    /\ child_out = NoWorkers
    /\ writes = NoWorkers
    /\ visited = NoWorkers
    /\ exc = "none"
    /\ splittable = {}
    /\ max_leaf_nodes = 0

\* TreePredictor.__init__(nodes, has_numerical_thresholds, prediction_dim)
TreePredictorInit(a, h, dim) ==
    /\ Len(predictors) < MaxPredictors
    /\ predictors' = Append(predictors,
                            [prediction_dim |-> dim, nodes |-> a,
                             has_numerical_thresholds |-> h])
    /\ PREDICTOR_RECORD_DTYPE' = dim
    /\ UNCHANGED <<nodes, has_numerical_thresholds, prediction_dim, call, grower>>

\* The output array predictor number k allocates for n samples (lines 76, 109).
AllocateOut(k, n, g) ==
    /\ k \in 1 .. Len(predictors)
    /\ out' = Empty(n, predictors[k].prediction_dim, g)
    /\ i' = k
    /\ UNCHANGED <<self, grower, predictors, pc, method, X, arg_out, processes,
                   node, child_out, writes, visited, exc>>

CtorNext ==
    \/ \E dim \in 1 .. MaxDim, h \in BOOLEAN :
          TreePredictorInit((0 :> LeafNode(0, dim)), h, dim)
    \/ \E k \in 1 .. MaxPredictors, g \in GarbageValues : AllocateOut(k, 1, g)

SpecCtor == CtorInit /\ [][CtorNext]_vars

\* ------------------------------------------------------------ properties
Workers == DOMAIN writes
Binned == method = "predict_binned"
InCall == pc \in {"create", "start", "join", "returned"}
ProcOf(w) == processes[w + 1]
Exited(w) == w + 1 <= Len(processes) /\ ProcOf(w).state \in {"stopped", "joined"}
Last(q) == q[Len(q)]

\* Reference evaluation of the tree by recursion on the node index: the path
\* from node k to the leaf a sample reaches.
RECURSIVE RefPath(_, _, _, _)
RefPath(a, k, row, binned) ==
    IF a[k].is_leaf = 1 THEN <<k>>
    ELSE LET cut == IF binned THEN a[k].bin_threshold ELSE a[k].threshold
             child == IF row[a[k].feature_idx] > cut THEN a[k].right ELSE a[k].left
         IN <<k>> \o RefPath(a, child, row, binned)

RefLeaf(a, row, binned) == Last(RefPath(a, 0, row, binned))

IsPrefix(q, r) == Len(q) <= Len(r) /\ \A j \in 1 .. Len(q) : q[j] = r[j]

\* C1 as stated: the walk of every sample follows the reference evaluation
\* (start at node 0, left on <=, right otherwise), and the row it assigns is
\* exactly the value vector of the leaf the reference evaluation reaches.
C1_WritesExactLeafValue ==
    InCall =>
        \A w \in Workers :
            /\ IsPrefix(visited[w], RefPath(nodes, 0, X.rows[w], Binned))
            /\ \A j \in 1 .. Len(writes[w]) :
                  /\ writes[w][j].row = w
                  /\ writes[w][j].value = nodes[RefLeaf(nodes, X.rows[w], Binned)].value

\* C1 amended: the walk of every sample follows the reference evaluation and,
\* once at its leaf, assigns to out[idx] that leaf's value vector converted to
\* the element type of the output array (float32 for an array allocated by
\* predict / predict_binned).
C1_WalkMatchesReference ==
    InCall =>
        \A w \in Workers :
            /\ IsPrefix(visited[w], RefPath(nodes, 0, X.rows[w], Binned))
            /\ Exited(w) =>
                  /\ visited[w] = RefPath(nodes, 0, X.rows[w], Binned)
                  /\ Len(writes[w]) = 1
            /\ \A j \in 1 .. Len(writes[w]) :
                  /\ writes[w][j].row = w
                  /\ writes[w][j].value =
                        Cast(nodes[RefLeaf(nodes, X.rows[w], Binned)].value,
                             child_out[w].dtype)

\* A worker has finished a walk whose root comparison was on the boundary
\* (sample value equal to the threshold), went left to a node that differs from
\* the right child, and assigned a converted value that differs from the leaf's.
C1_Witness ==
    /\ InCall
    /\ \E w \in Workers :
          /\ Exited(w)
          /\ nodes[0].is_leaf = 0
          /\ nodes[0].left # nodes[0].right
          /\ X.rows[w][nodes[0].feature_idx] =
                (IF Binned THEN nodes[0].bin_threshold ELSE nodes[0].threshold)
          /\ visited[w][2] = nodes[0].left
          /\ Len(visited[w]) = 3
          /\ writes[w][1].value # nodes[Last(visited[w])].value
          /\ writes[w][1].value = Cast(nodes[Last(visited[w])].value, "float32")

\* C2 as stated: when the call has returned, every row of the array the
\* caller receives holds what that sample's worker assigned to it; no row is
\* left unwritten.
C2_ReturnedRowsWritten ==
    pc = "returned" =>
        \A w \in Workers :
            /\ Len(writes[w]) = 1
            /\ out.rows[w] = writes[w][1].value


PredictorFrame ==
    /\ nodes' = nodes
    /\ has_numerical_thresholds' = has_numerical_thresholds
    /\ prediction_dim' = prediction_dim
    /\ PREDICTOR_RECORD_DTYPE' = PREDICTOR_RECORD_DTYPE

NothingComputed ==
    /\ processes = <<>>
    /\ node = NoWorkers
    /\ visited = NoWorkers
    /\ writes = NoWorkers
    /\ child_out = NoWorkers

C3_State ==
    method = "predict" =>
        IF ~has_numerical_thresholds \/ X.dtype = "uint8"
        THEN /\ pc = "raised"
             /\ exc = "ValueError"
             /\ out = None
             /\ NothingComputed
        ELSE /\ pc # "raised"
             /\ exc = "none"
             /\ out # None

\* C3: predict raises ValueError whenever the predictor has no numerical
\* thresholds and whenever X is uint8, before an output array is allocated, a
\* worker is created or a node is visited, and leaves the predictor as it was;
\* otherwise it proceeds to the traversal.
C3_PredictValidates == [](C3_State) /\ [][PredictorFrame]_vars

\* predict has raised for a predictor that has numerical thresholds, on a
\* non-empty uint8 input.
C3_Witness ==
    /\ method = "predict"
    /\ pc = "raised"
    /\ has_numerical_thresholds
    /\ X.dtype = "uint8"
    /\ NSamples(X) > 0

\* C4: predict_binned raises ValueError whenever binned_data is not uint8,
\* whatever has_numerical_thresholds is, before any worker is created and
\* before any write to the caller's `out`, which is left as passed; the input
\* is not coerced.
C4_PredictBinnedValidates ==
    (method = "predict_binned" /\ X.dtype # "uint8") =>
        /\ pc = "raised"
        /\ exc = "ValueError"
        /\ out = arg_out
        /\ NothingComputed

\* predict_binned has raised on a non-empty float input with a caller-supplied
\* shared `out`, for a predictor with numerical thresholds.
C4_Witness ==
    /\ method = "predict_binned"
    /\ pc = "raised"
    /\ X.dtype = "float32"
    /\ NSamples(X) > 0
    /\ arg_out # None
    /\ arg_out.shared
    /\ has_numerical_thresholds

C6_State ==
    InCall =>
        \A w \in Workers :
            /\ Len(writes[w]) <= 1
            /\ Exited(w) => Len(writes[w]) = 1
            /\ \A j \in 1 .. Len(writes[w]) : writes[w][j].row = w
            /\ \A v \in Workers \ {w} :
                  \A j \in 1 .. Len(writes[w]), k \in 1 .. Len(writes[v]) :
                      writes[w][j].row # writes[v][k].row

\* Every step inside a call leaves the node array and the input alone, changes
\* row s of the parent's array only when worker s performs its assignment, and
\* changes in worker w's own copy nothing but row w.
C6_Frame ==
    InCall =>
        /\ nodes' = nodes
        /\ X' = X
        /\ \A s \in DOMAIN out.rows :
              out'.rows[s] # out.rows[s] => Len(writes'[s]) = Len(writes[s]) + 1
        /\ \A w \in Workers :
              (child_out[w] # None /\ child_out'[w] # child_out[w]) =>
                  /\ Len(writes'[w]) = Len(writes[w]) + 1
                  /\ \A s \in DOMAIN child_out[w].rows \ {w} :
                        child_out'[w].rows[s] = child_out[w].rows[s]

\* C6: under every interleaving the worker of sample i performs exactly one
\* write, to row i, and nothing else; no two workers write the same row; the
\* node array and the input matrix are the same before and after the call.
C6_DisjointWrites == [](C6_State) /\ [][C6_Frame]_vars

\* Two workers sharing the caller's array have both performed their write.
C6_Witness ==
    /\ InCall
    /\ out.shared
    /\ NSamples(X) = 2
    /\ Exited(0) /\ Exited(1)
    /\ out.rows[0] = writes[0][1].value
    /\ out.rows[1] = writes[1][1].value
    /\ out.rows[0] # out.rows[1]

NoRepeat(q) == \A j, k \in 1 .. Len(q) : j # k => q[j] # q[k]

C9_State ==
    InCall =>
        \A w \in Workers :
            /\ Len(visited[w]) <= NNodes(nodes)
            /\ NoRepeat(visited[w])
            /\ \A j \in 1 .. Len(visited[w]) : visited[w][j] \in DOMAIN nodes
            /\ Exited(w) => nodes[Last(visited[w])].is_leaf = 1

\* C9: on a node array whose left/right indices exceed the node's own index,
\* every walk ends at a leaf after at most as many nodes as the array holds,
\* revisits no node and never indexes outside the array; every worker's loop
\* exits and the call, which joins every worker, eventually returns.
C9_WalkTerminates ==
    [](C9_State) /\ ((pc \in {"create", "start", "join"}) ~> (pc = "returned"))

\* The call has returned after a worker visited every node of a 3-node array.
C9_Witness ==
    /\ pc = "returned"
    /\ \E w \in Workers :
          /\ Len(visited[w]) = NNodes(nodes)
          /\ NNodes(nodes) >= 3

Started(k) == processes[k].state # "initial"
Joined(k) == processes[k].state = "joined"

\* C10: n workers are created, one per sample index in ascending order; none is
\* started before all are created, none joined before all are started; starts
\* and joins go in ascending order; the call returns only after every join; for
\* n = 0 nothing is created and the call returns at once with an empty output.
C10_Lifecycle ==
    InCall =>
        /\ Len(processes) <= NSamples(X)
        /\ \A k \in 1 .. Len(processes) :
              /\ processes[k].idx = k - 1
              /\ processes[k].row = X.rows[k - 1]
              /\ Started(k) => Len(processes) = NSamples(X)
              /\ Joined(k) => \A l \in 1 .. Len(processes) : Started(l)
              /\ \A l \in 1 .. k - 1 : (Started(k) => Started(l)) /\ (Joined(k) => Joined(l))
        /\ pc = "create" => \A k \in 1 .. Len(processes) : ~Started(k)
        /\ pc = "start" => \A k \in 1 .. Len(processes) : ~Joined(k)
        /\ pc = "returned" =>
              /\ Len(processes) = NSamples(X)
              /\ \A k \in 1 .. Len(processes) : Joined(k)
        /\ NSamples(X) = 0 =>
              /\ pc = "returned"
              /\ processes = <<>>
              /\ out.rows = NoWorkers

\* The parent has joined the first of two workers and waits for the second,
\* which is still walking.
C10_Witness ==
    /\ pc = "join"
    /\ NSamples(X) = 2
    /\ Joined(1)
    /\ processes[2].state = "started"


C7_LeafBudget ==
    pc = "finished" => get_n_leaf_nodes(nodes) <= max_leaf_nodes

\* Growth stopped on the leaf budget: the tree has max_leaf_nodes > 1 leaves
\* and a node that was still splittable was turned into a leaf.
C7_Witness ==
    /\ pc = "finished"
    /\ max_leaf_nodes > 1
    /\ get_n_leaf_nodes(nodes) = max_leaf_nodes
    /\ NNodes(nodes) = 2 * max_leaf_nodes - 1

\* C8 as stated: no constructor changes the module-level record layout, and
\* every predictor allocates output rows of its own prediction_dim width,
\* whatever was constructed after it.
C8_NoGlobalLayout ==
    /\ [][PREDICTOR_RECORD_DTYPE' = PREDICTOR_RECORD_DTYPE]_vars
    /\ [](out # None =>
            \A s \in DOMAIN out.rows :
                Len(out.rows[s]) = predictors[i].prediction_dim)

====
